---- MODULE Spec2Model ----
(***************************************************************************)
(* The idea pool of the blog pipeline: the ideas endpoint (POST / GET /    *)
(* DELETE), the cron publish flow, the repository layer over the Pinecone  *)
(* index, and the similarity function.                                     *)
(*                                                                         *)
(* Similarity scores are integers in hundredths (85 stands for 0.85).      *)
(* Every handler is cut at its awaits on the shared index: the code that   *)
(* runs between two such awaits is one action.                             *)
(***************************************************************************)
EXTENDS Integers, Sequences, FiniteSets, TLC

VARIABLES
    store,      \* the Pinecone index: id -> [values, metadata]
    nextId,     \* number of ids nanoid() has handed out
    now,        \* the wall clock, in ticks
    req,        \* the requests in flight: slot -> handler state
    embedderInstance,   \* the process's model handle: Undefined (null) or <<handle>>
    env         \* process.env: [PUBLISH_PASSWORD |-> Undefined or <<secret>>]

vars == <<store, nextId, now, req, embedderInstance, env>>

\* ------------------------------------------------------------------ bounds

MaxIdeas == 2       \* ids nanoid() hands out in one run
MaxClock == 2       \* ticks of the wall clock
GatePool == 4       \* ideas already stored when a run of the gate starts
SelectPool == 3     \* ideas already stored when a run of the selection starts
MaxDim == 2         \* length of the vectors cosineSimilarity is called with
CronPool == 2       \* ideas already stored when two cron runs start
MaxListing == 6     \* ideas in a listing whose recent set is taken

\* the requests in flight: the operator's request to the ideas endpoint and
\* the scheduler's cron run
ApiProcs == {"api"}
CronProcs == {"cron"}
Procs == ApiProcs \cup CronProcs

\* --------------------------------------------------------- program constants

GateThreshold == 85         \* score > 0.85, in hundredths
DefaultThreshold == 85      \* isIdeaUnique's default threshold
TopK == 5                   \* querySimilarIdeas(embedding, 5)
ConflictLimit == 3          \* similarIdeas.slice(0, 3)
RecentLimit == 5            \* .slice(0, 5) of the used ideas
InitialMinMax == 100        \* let minMaxSimilarity = 1
PineconeMax == 10000        \* Math.min(totalVectors, 10000)
MinTitleLen == 5
MaxTitleLen == 200
MinDescriptionLen == 20
MaxDescriptionLen == 1000
MinTags == 1
MaxTags == 5

\* ------------------------------------------------------------------- texts

TitleA == "Rust ownership"
TitleB == "Rust borrowing"
TitleC == "Borrow checker"
TitleShort == "Rust"
\* 218 characters
TitleLong == "Rust ownership, Rust borrowing and the borrow checker, " \o
             "Rust ownership, Rust borrowing and the borrow checker, " \o
             "Rust ownership, Rust borrowing and the borrow checker, " \o
             "and the lifetimes that tie the three of them together"
DescriptionOk == "How the compiler tracks references"
DescriptionShort == "too short"

TagsOk == <<"rust", "tla">>
TagsNone == <<>>
TagsMany == <<"a", "b", "c", "d", "e", "f">>
TagsSwapped == <<"tla", "rust">>
TagsOne == <<"rust">>
TagLists == {TagsOk, TagsNone, TagsMany, TagsSwapped, TagsOne}

Platforms == {"devto", "hashnode"}

\* JS undefined for an optional string is the empty sequence, a present
\* string s is <<s>>
Undefined == <<>>

\* ------------------------------------------------------------- embeddings

VecA == <<20, 0, 0, 0, 0>>
VecB == <<17, 10, 3, 1, 1>>
VecC == <<12, 16, 0, 0, 0>>
VecOther == <<0, 0, 0, 0, 20>>

\* `${title}\n\n${description}`
CombinedText(title, description) == title \o "\n\n" \o description

\* the feature-extraction pipeline of the fixed model: a deterministic map
\* from text to a vector of the model's dimension
TextA == CombinedText(TitleA, DescriptionOk)
TextB == CombinedText(TitleB, DescriptionOk)
TextC == CombinedText(TitleC, DescriptionOk)

Embedder(text) ==
    CASE text = TextA -> VecA
      [] text = TextB -> VecB
      [] text = TextC -> VecC
      [] OTHER -> VecOther

generateEmbedding(text) == Embedder(text)

generateIdeaEmbedding(title, description) ==
    generateEmbedding(CombinedText(title, description))

\* ------------------------------------------------------- cosineSimilarity

RECURSIVE SumProducts(_, _, _)
\* the loop of cosineSimilarity: sum over i < n of a[i] * b[i]
SumProducts(a, b, n) ==
    IF n = 0 THEN 0 ELSE SumProducts(a, b, n - 1) + a[n] * b[n]

RECURSIVE SqrtFrom(_, _)
SqrtFrom(n, r) == IF (r + 1) * (r + 1) > n THEN r ELSE SqrtFrom(n, r + 1)

\* Math.sqrt on the sums of squares the model meets (all perfect squares)
Sqrt(n) == SqrtFrom(n, 0)

\* mutant: unequal lengths are cut to the shorter one
cosineSimilarityTruncating(vecA, vecB) ==
    LET n == IF Len(vecA) <= Len(vecB) THEN Len(vecA) ELSE Len(vecB)
        dotProduct == SumProducts(vecA, vecB, n)
        magnitudeA == Sqrt(SumProducts(vecA, vecA, n))
        magnitudeB == Sqrt(SumProducts(vecB, vecB, n))
    IN  IF magnitudeA = 0 \/ magnitudeB = 0
        THEN [threw |-> FALSE, value |-> 0]
        ELSE [threw |-> FALSE,
              value |-> (dotProduct * 100) \div (magnitudeA * magnitudeB)]

\* mutant: a zero magnitude is an error
cosineSimilarityZeroThrows(vecA, vecB) ==
    IF Len(vecA) # Len(vecB)
    THEN [threw |-> TRUE, value |-> 0]
    ELSE LET dotProduct == SumProducts(vecA, vecB, Len(vecA))
             magnitudeA == Sqrt(SumProducts(vecA, vecA, Len(vecA)))
             magnitudeB == Sqrt(SumProducts(vecB, vecB, Len(vecA)))
         IN  IF magnitudeA = 0 \/ magnitudeB = 0
             THEN [threw |-> TRUE, value |-> 0]
             ELSE [threw |-> FALSE,
                   value |-> (dotProduct * 100) \div (magnitudeA * magnitudeB)]

cosineSimilarity(vecA, vecB) ==
    IF Len(vecA) # Len(vecB)
    THEN [threw |-> TRUE, value |-> 0]
    ELSE LET dotProduct == SumProducts(vecA, vecB, Len(vecA))
             magnitudeA == Sqrt(SumProducts(vecA, vecA, Len(vecA)))
             magnitudeB == Sqrt(SumProducts(vecB, vecB, Len(vecA)))
         IN  IF magnitudeA = 0 \/ magnitudeB = 0
             THEN [threw |-> FALSE, value |-> 0]
             ELSE [threw |-> FALSE,
                   value |-> (dotProduct * 100) \div (magnitudeA * magnitudeB)]

isIdeaUnique(maxSimilarity, threshold) == maxSimilarity < threshold

\* ------------------------------------------------- repository translation

RECURSIVE JoinQuoted(_)
JoinQuoted(tags) ==
    IF Len(tags) = 0 THEN ""
    ELSE IF Len(tags) = 1 THEN "\"" \o tags[1] \o "\""
    ELSE "\"" \o tags[1] \o "\"," \o JoinQuoted(Tail(tags))

JSONStringify(tags) == "[" \o JoinQuoted(tags) \o "]"

\* JSON.parse of a string JSON.stringify made: the list that encodes to it
JSONOf == [tags \in TagLists |-> JSONStringify(tags)]
JSONParse(s) == CHOOSE tags \in TagLists : JSONOf[tags] = s

\* what new Date() may read when the clock last read `clock`: time has stood
\* still or moved on by a tick
Readings(clock) == {t \in {clock, clock + 1} : t <= MaxClock}

\* new Date(...).toISOString() of tick n, and new Date(s).getTime()
ISOOf == [n \in 0..(MaxClock + 1) |-> "2026-01-01T00:00:0" \o ToString(n) \o ".000Z"]
ToISOString(n) == ISOOf[n]
GetTime(s) == CHOOSE n \in 0..(MaxClock + 1) : ISOOf[n] = s

ideaToMetadata(idea) ==
    [title |-> idea.title,
     description |-> idea.description,
     tags |-> JSONStringify(idea.tags),
     createdAt |-> idea.createdAt,
     used |-> IF idea.used THEN "true" ELSE "false",
     usedAt |-> IF idea.usedAt = Undefined THEN "" ELSE idea.usedAt[1]]

\* mutant: used is the truthiness of the stored string
metadataToIdeaTruthy(id, metadata) ==
    [id |-> id,
     title |-> metadata.title,
     description |-> metadata.description,
     tags |-> JSONParse(metadata.tags),
     createdAt |-> metadata.createdAt,
     used |-> (metadata.used # ""),
     usedAt |-> IF metadata.usedAt = "" THEN Undefined ELSE <<metadata.usedAt>>]

metadataToIdea(id, metadata) ==
    [id |-> id,
     title |-> metadata.title,
     description |-> metadata.description,
     tags |-> JSONParse(metadata.tags),
     createdAt |-> metadata.createdAt,
     used |-> (metadata.used = "true"),
     usedAt |-> IF metadata.usedAt = "" THEN Undefined ELSE <<metadata.usedAt>>]

\* ------------------------------------------------------ the Pinecone index

ZeroVector == <<0, 0, 0, 0, 0>>     \* new Array(384).fill(0), at the model's dimension

Min(a, b) == IF a <= b THEN a ELSE b

\* index.upsert([{id, values, metadata}])
IndexUpsert(st, id, values, metadata) ==
    [i \in DOMAIN st \cup {id} |->
        IF i = id THEN [values |-> values, metadata |-> metadata] ELSE st[i]]

\* index.deleteOne(id)
IndexDelete(st, id) == [i \in DOMAIN st \ {id} |-> st[i]]

\* index.describeIndexStats().totalRecordCount
IndexStats(st) == Cardinality(DOMAIN st)

\* the score the index gives a record against a query vector
IndexScore(st, id, vector) == cosineSimilarity(st[id].values, vector).value

RECURSIVE Rankings(_)
\* the orders of the scored records <<score, id>> in descending score; records
\* of equal score come in any order
Rankings(scored) ==
    IF scored = {} THEN {<<>>}
    ELSE UNION {{<<best>> \o rest : rest \in Rankings(scored \ {best})} :
                best \in {e \in scored : \A other \in scored : e[1] >= other[1]}}

\* index.query({vector, topK, includeMetadata}): the possible answers, each
\* the topK best matches [id, score, metadata] in descending score
IndexQuery(st, vector, topK) ==
    LET scored == {<<IndexScore(st, id, vector), id>> : id \in DOMAIN st}
    IN  {[i \in 1..Min(topK, Len(ranking)) |->
            [id |-> ranking[i][2], score |-> ranking[i][1],
             metadata |-> st[ranking[i][2]].metadata]] :
         ranking \in Rankings(scored)}

\* ------------------------------------------------------------ vector-db.ts

upsertIdea(st, idea, embedding) ==
    IndexUpsert(st, idea.id, embedding, ideaToMetadata(idea))

\* (results.matches || []).map((match) => ({id, score, metadata}))
querySimilarIdeas(matches) ==
    [i \in 1..Len(matches) |->
        [id |-> matches[i].id,
         score |-> matches[i].score,
         metadata |-> metadataToIdea(matches[i].id, matches[i].metadata)]]

\* (results.matches || []).map((match) => metadataToIdea(match.id, match.metadata))
getAllIdeas(matches) ==
    [i \in 1..Len(matches) |-> metadataToIdea(matches[i].id, matches[i].metadata)]

\* mutant: used is set and usedAt is forgotten
updatedIdeaNoDate(existingIdea, clock) == [existingIdea EXCEPT !.used = TRUE]

\* new BlogIdea({...existingIdea, used: true, usedAt: new Date().toISOString()})
updatedIdea(existingIdea, clock) ==
    [existingIdea EXCEPT !.used = TRUE, !.usedAt = <<ToISOString(clock)>>]

\* mutant: the rewrite stamps createdAt as well
markedRecordRestamped(id, existingRecord, clock) ==
    [values |-> existingRecord.values,
     metadata |-> [ideaToMetadata(
                      updatedIdea(metadataToIdea(id, existingRecord.metadata), clock))
                   EXCEPT !.createdAt = ToISOString(clock)]]

\* mutant: the upsert carries the two changed fields only
markedRecordPartial(id, existingRecord, clock) ==
    [values |-> existingRecord.values,
     metadata |-> [used |-> "true", usedAt |-> ToISOString(clock)]]

\* the record markIdeaAsUsed upserts for a fetched record
markedRecord(id, existingRecord, clock) ==
    [values |-> existingRecord.values,
     metadata |-> ideaToMetadata(
         updatedIdea(metadataToIdea(id, existingRecord.metadata), clock))]

\* -------------------------------------------------------- selectUniqueIdea

RECURSIVE InsertByUsedAt(_, _)
\* Array.prototype.sort is stable: x goes after every element that does not
\* compare after it under (a, b) => getTime(b.usedAt) - getTime(a.usedAt)
InsertByUsedAt(sorted, x) ==
    IF sorted = <<>> THEN <<x>>
    ELSE IF GetTime(Head(sorted).usedAt[1]) >= GetTime(x.usedAt[1])
         THEN <<Head(sorted)>> \o InsertByUsedAt(Tail(sorted), x)
         ELSE <<x>> \o sorted

RECURSIVE SortByUsedAtDesc(_)
SortByUsedAtDesc(ideas) ==
    IF ideas = <<>> THEN <<>>
    ELSE InsertByUsedAt(SortByUsedAtDesc(SubSeq(ideas, 1, Len(ideas) - 1)),
                        ideas[Len(ideas)])

\* .slice(0, n)
Slice(s, n) == SubSeq(s, 1, Min(n, Len(s)))

\* mutant: the filter on used is lost
IsUnusedAny(idea) == TRUE

IsUnused(idea) == ~idea.used
IsUsedWithDate(idea) == idea.used /\ idea.usedAt # Undefined

unusedOf(allIdeas) == SelectSeq(allIdeas, IsUnused)

\* mutant: the sort by usedAt is lost
recentOfUnsorted(allIdeas) ==
    Slice(SelectSeq(allIdeas, IsUsedWithDate), RecentLimit)

\* the used ideas, latest usedAt first, at most 5
recentOf(allIdeas) ==
    Slice(SortByUsedAtDesc(SelectSeq(allIdeas, IsUsedWithDate)), RecentLimit)

RECURSIVE MaxOf(_)
\* Math.max(...values) of a non-empty list
MaxOf(values) ==
    IF Len(values) = 1 THEN values[1]
    ELSE LET rest == MaxOf(Tail(values))
         IN  IF values[1] >= rest THEN values[1] ELSE rest

\* max over the recent ideas of cosineSimilarity(embedding(idea), embedding(r))
maxSimilarity(idea, recent) ==
    MaxOf([i \in 1..Len(recent) |->
        cosineSimilarity(
            generateIdeaEmbedding(idea.title, idea.description),
            generateIdeaEmbedding(recent[i].title, recent[i].description)).value])

\* mutant: a tie replaces the running best
IsBetterOrEqual(maxSim, minMaxSimilarity) == maxSim <= minMaxSimilarity

\* mutant: the comparison points the other way
IsBetterReversed(maxSim, minMaxSimilarity) == maxSim > minMaxSimilarity

\* the running-best comparison of the loop
IsBetter(maxSim, minMaxSimilarity) == maxSim < minMaxSimilarity

RECURSIVE SelectLoop(_, _, _, _, _)
\* for (const idea of unusedIdeas) { ... } from position i on
SelectLoop(unused, recent, i, selectedIdea, minMaxSimilarity) ==
    IF i > Len(unused) THEN selectedIdea
    ELSE LET maxSim == maxSimilarity(unused[i], recent)
         IN  IF IsBetter(maxSim, minMaxSimilarity)
             THEN SelectLoop(unused, recent, i + 1, unused[i], maxSim)
             ELSE SelectLoop(unused, recent, i + 1, selectedIdea, minMaxSimilarity)

\* mutant: the cold start takes the first unused idea, not a random one
selectUniqueIdeaFirst(allIdeas) ==
    LET unusedIdeas == unusedOf(allIdeas)
        usedIdeas == recentOf(allIdeas)
    IN  IF Len(unusedIdeas) = 0 THEN {}
        ELSE IF Len(usedIdeas) = 0
             THEN {unusedIdeas[1]}
             ELSE {SelectLoop(unusedIdeas, usedIdeas, 1, unusedIdeas[1], InitialMinMax)}

\* mutant: with no unused idea left, the first listed idea is taken again
selectUniqueIdeaFallback(allIdeas) ==
    LET unusedIdeas == unusedOf(allIdeas)
        usedIdeas == recentOf(allIdeas)
    IN  IF Len(unusedIdeas) = 0
        THEN IF Len(allIdeas) = 0 THEN {} ELSE {allIdeas[1]}
        ELSE IF Len(usedIdeas) = 0
             THEN {unusedIdeas[i] : i \in 1..Len(unusedIdeas)}
             ELSE {SelectLoop(unusedIdeas, usedIdeas, 1, unusedIdeas[1], InitialMinMax)}

\* the ideas selectUniqueIdea may return for a listing (the random index of
\* the cold start is any index); the empty set when it throws
selectUniqueIdea(allIdeas) ==
    LET unusedIdeas == unusedOf(allIdeas)
        usedIdeas == recentOf(allIdeas)
    IN  IF Len(unusedIdeas) = 0 THEN {}
        ELSE IF Len(usedIdeas) = 0
             THEN {unusedIdeas[i] : i \in 1..Len(unusedIdeas)}
             ELSE {SelectLoop(unusedIdeas, usedIdeas, 1, unusedIdeas[1], InitialMinMax)}

\* the calls of generateIdeaEmbedding selectUniqueIdea makes for a listing:
\* none before the cold-start return, then one for each recent idea and one
\* for each unused idea
embeddingCalls(allIdeas) ==
    LET unusedIdeas == unusedOf(allIdeas)
        usedIdeas == recentOf(allIdeas)
    IN  IF Len(unusedIdeas) = 0 \/ Len(usedIdeas) = 0 THEN 0
        ELSE Len(usedIdeas) + Len(unusedIdeas)

\* ------------------------------------------------------ requests in flight

Idle == [op |-> "idle", pc |-> "idle"]

\* res.status(status).json(body): the handler has returned
Done(op, status, body) == [op |-> op, pc |-> "done", status |-> status, body |-> body]

ErrorBody(message) == [error |-> [message |-> message]]

\* the same for a create request, which the model keeps beside its response
DonePost(request, status, body) ==
    [op |-> "POST", pc |-> "done", status |-> status, body |-> body, request |-> request]

\* ----------------------------------------------------- POST /api/ideas

\* the request bodies: the valid ones, and one for each way validation fails
CreateBodies ==
    [title : {TitleA, TitleB, TitleC, TitleShort, TitleLong},
     description : {DescriptionOk}, tags : {TagsOk}]
    \cup [title : {TitleA}, description : {DescriptionShort}, tags : {TagsOk}]
    \cup [title : {TitleA}, description : {DescriptionOk}, tags : {TagsNone, TagsMany}]

\* Schema.decodeUnknownEither(CreateIdeaRequest)(req.body) is a Right
IsValidCreate(body) ==
    /\ Len(body.title) >= MinTitleLen
    /\ Len(body.title) <= MaxTitleLen
    /\ Len(body.description) >= MinDescriptionLen
    /\ Len(body.description) <= MaxDescriptionLen
    /\ Len(body.tags) >= MinTags
    /\ Len(body.tags) <= MaxTags

\* mutant: the threshold is 1, which no score exceeds
tooSimilarAboveOne(similarIdeas) ==
    \E i \in 1..Len(similarIdeas) : similarIdeas[i].score > 100

\* mutant: the threshold is 0.5
tooSimilarAboveHalf(similarIdeas) ==
    \E i \in 1..Len(similarIdeas) : similarIdeas[i].score > 50

\* similarIdeas.some((idea) => idea.score > 0.85)
tooSimilar(similarIdeas) ==
    \E i \in 1..Len(similarIdeas) : similarIdeas[i].score > GateThreshold

\* mutant: slice(1, 4), the best match is dropped
conflictsOfShifted(similarIdeas) ==
    LET top == SubSeq(similarIdeas, 2, Min(ConflictLimit + 1, Len(similarIdeas)))
    IN  [i \in 1..Len(top) |->
            [title |-> top[i].metadata.title, similarity |-> top[i].score]]

\* similarIdeas.slice(0, 3).map((i) => ({title, similarity}))
conflictsOf(similarIdeas) ==
    LET top == Slice(similarIdeas, ConflictLimit)
    IN  [i \in 1..Len(top) |->
            [title |-> top[i].metadata.title, similarity |-> top[i].score]]

\* mutant: every idea gets the same id
newIdeaSameId(id, body, clock) ==
    [id |-> 1,
     title |-> body.title,
     description |-> body.description,
     tags |-> body.tags,
     createdAt |-> ToISOString(clock),
     used |-> FALSE,
     usedAt |-> Undefined]

\* new BlogIdea({id: nanoid(), title, description, tags, createdAt, used: false})
newIdea(id, body, clock) ==
    [id |-> id,
     title |-> body.title,
     description |-> body.description,
     tags |-> body.tags,
     createdAt |-> ToISOString(clock),
     used |-> FALSE,
     usedAt |-> Undefined]

\* the handler's state after the gate has looked at the query's answer
gateOutcome(similarIdeas, body, embedding, id, clock) ==
    IF tooSimilar(similarIdeas)
    THEN DonePost(body, 400,
                  [error |-> [message |-> "Similar idea already exists",
                              similarIdeas |-> conflictsOf(similarIdeas)]])
    ELSE [op |-> "POST", pc |-> "upsert", request |-> body,
          idea |-> newIdea(id, body, clock), embedding |-> embedding]

\* POST, from the request to the await of upsertIdea: validation, embedding,
\* nearest-neighbour query, gate
PostCreate(p, body) ==
    /\ req[p] = Idle
    /\ IF ~IsValidCreate(body)
       THEN /\ req' = [req EXCEPT ![p] = DonePost(body, 400, ErrorBody("Validation failed"))]
            /\ UNCHANGED <<nextId, now>>
       ELSE LET embedding == generateIdeaEmbedding(body.title, body.description)
            IN  \E matches \in IndexQuery(store, embedding, TopK), clock \in Readings(now) :
                  LET next == gateOutcome(querySimilarIdeas(matches),
                                          body, embedding, nextId + 1, clock)
                  IN  /\ next.pc = "upsert" => nextId < MaxIdeas
                      /\ req' = [req EXCEPT ![p] = next]
                      /\ nextId' = IF next.pc = "upsert" THEN nextId + 1 ELSE nextId
                      /\ now' = IF next.pc = "upsert" THEN clock ELSE now
    /\ UNCHANGED <<store, embedderInstance, env>>

\* await upsertIdea(idea, embedding); res.status(201).json({idea})
PostUpsert(p) ==
    /\ req[p].op = "POST"
    /\ req[p].pc = "upsert"
    /\ store' = upsertIdea(store, req[p].idea, req[p].embedding)
    /\ req' = [req EXCEPT ![p] = DonePost(req[p].request, 201, [idea |-> req[p].idea])]
    /\ UNCHANGED <<nextId, now, embedderInstance, env>>

\* ------------------------------------------------------ GET /api/ideas

\* describeIndexStats; an empty index answers at once
GetStart(p) ==
    /\ req[p] = Idle
    /\ req' = [req EXCEPT ![p] =
                 IF IndexStats(store) = 0
                 THEN Done("GET", 200, [ideas |-> <<>>])
                 ELSE [op |-> "GET", pc |-> "list", total |-> IndexStats(store)]]
    /\ UNCHANGED <<store, nextId, now, embedderInstance, env>>

\* the zero-vector query of getAllIdeas; res.status(200).json({ideas})
GetList(p) ==
    /\ req[p].op = "GET"
    /\ req[p].pc = "list"
    /\ \E matches \in IndexQuery(store, ZeroVector, Min(req[p].total, PineconeMax)) :
         req' = [req EXCEPT ![p] =
                    Done("GET", 200, [ideas |-> getAllIdeas(matches)])]
    /\ UNCHANGED <<store, nextId, now, embedderInstance, env>>

\* --------------------------------------------------- DELETE /api/ideas

\* req.query.id is missing or not a string
DeleteWithoutId(p) ==
    /\ req[p] = Idle
    /\ req' = [req EXCEPT ![p] = Done("DELETE", 400, ErrorBody("Idea ID is required"))]
    /\ UNCHANGED <<store, nextId, now, embedderInstance, env>>

\* await deleteIdea(id); res.status(200)
Delete(p, id) ==
    /\ req[p] = Idle
    /\ store' = IndexDelete(store, id)
    /\ req' = [req EXCEPT ![p] =
                  Done("DELETE", 200, [message |-> "Idea deleted successfully"])]
    /\ UNCHANGED <<nextId, now, embedderInstance, env>>


\* ------------------------------------------------- /api/publish-multi

\* what the cron request may carry as body.platforms
RequestedPlatforms == {<<"absent">>, <<>>, <<"devto">>}

\* Array.isArray(p) && p.every(devto | hashnode) ? p : ["devto", "hashnode"]
platformsOf(requested) ==
    IF \A i \in 1..Len(requested) : requested[i] \in Platforms
    THEN requested
    ELSE <<"devto", "hashnode">>

\* publishMulti for an authorised POST: succeeded[platform] says whether the
\* platform's API took the article
publishMulti(body, succeeded) ==
    IF body.title = "" \/ body.content = ""
    THEN [status |-> 400, results |-> <<>>]
    ELSE IF Len(body.platforms) = 0
    THEN [status |-> 400, results |-> <<>>]
    ELSE [status |-> 200,
          results |-> [i \in 1..Len(body.platforms) |->
              [platform |-> body.platforms[i],
               success |-> succeeded[body.platforms[i]]]]]

\* publishArticle throws unless response.ok
publishThrows(response) == response.status # 200

\* ----------------------------------------------------- /api/cron/publish

\* cron, from the request to the zero-vector query of getAllIdeas
CronStart(p) ==
    /\ req[p] = Idle
    /\ req' = [req EXCEPT ![p] =
                 IF IndexStats(store) = 0
                 THEN Done("cron", 500, ErrorBody("No unused ideas available"))
                 ELSE [op |-> "cron", pc |-> "select", total |-> IndexStats(store)]]
    /\ UNCHANGED <<store, nextId, now, embedderInstance, env>>

\* the listing arrives; selectUniqueIdea picks; the article is generated.
\* The run keeps the listing it read and the number of embeddings it asked
\* for until publishArticle is called.
CronSelect(p) ==
    /\ req[p].op = "cron"
    /\ req[p].pc = "select"
    /\ \E matches \in IndexQuery(store, ZeroVector, Min(req[p].total, PineconeMax)) :
         LET choices == selectUniqueIdea(getAllIdeas(matches))
         IN  IF choices = {}
             THEN req' = [req EXCEPT ![p] =
                            Done("cron", 500, ErrorBody("No unused ideas available"))]
             ELSE \E idea \in choices :
                    req' = [req EXCEPT ![p] =
                              [op |-> "cron", pc |-> "publish", idea |-> idea,
                               allIdeas |-> getAllIdeas(matches),
                               embedded |-> embeddingCalls(getAllIdeas(matches))]]
    /\ UNCHANGED <<store, nextId, now, embedderInstance, env>>

\* the handler's state after publishArticle has the sink's response
afterPublish(idea, response) ==
    IF publishThrows(response)
    THEN Done("cron", 500, ErrorBody("Failed to publish"))
    ELSE [op |-> "cron", pc |-> "fetch", idea |-> idea,
          publishResult |-> response.results]

\* await publishArticle(idea.title, content, idea.tags, platforms)
CronPublish(p, requested, content, succeeded) ==
    /\ req[p].op = "cron"
    /\ req[p].pc = "publish"
    /\ req' = [req EXCEPT ![p] =
                 afterPublish(req[p].idea,
                     publishMulti([title |-> req[p].idea.title,
                                   content |-> content,
                                   tags |-> req[p].idea.tags,
                                   platforms |-> platformsOf(requested)],
                                  succeeded))]
    /\ UNCHANGED <<store, nextId, now, embedderInstance, env>>

\* mutant: a missing record is not an error, the idea is written anew
CronMarkFetchCreates(p) ==
    /\ req[p].op = "cron"
    /\ req[p].pc = "fetch"
    /\ \E clock \in Readings(now) :
          /\ req' = [req EXCEPT ![p] =
                       [op |-> "cron", pc |-> "mark", idea |-> req[p].idea,
                        publishResult |-> req[p].publishResult,
                        record |->
                            [values |-> generateIdeaEmbedding(req[p].idea.title,
                                                              req[p].idea.description),
                             metadata |-> ideaToMetadata(updatedIdea(req[p].idea, clock))]]]
          /\ now' = clock
    /\ UNCHANGED <<store, nextId, embedderInstance, env>>

\* markIdeaAsUsed up to its upsert: fetch, IdeaNotFound, the updated metadata
CronMarkFetch(p) ==
    /\ req[p].op = "cron"
    /\ req[p].pc = "fetch"
    /\ IF req[p].idea.id \notin DOMAIN store
       THEN /\ req' = [req EXCEPT ![p] = Done("cron", 500, ErrorBody("Idea not found"))]
            /\ UNCHANGED now
       ELSE \E clock \in Readings(now) :
              /\ req' = [req EXCEPT ![p] =
                           [op |-> "cron", pc |-> "mark", idea |-> req[p].idea,
                            publishResult |-> req[p].publishResult,
                            record |-> markedRecord(req[p].idea.id,
                                                    store[req[p].idea.id], clock)]]
              /\ now' = clock
    /\ UNCHANGED <<store, nextId, embedderInstance, env>>

\* the upsert of markIdeaAsUsed; res.status(200)
CronMarkUpsert(p) ==
    /\ req[p].op = "cron"
    /\ req[p].pc = "mark"
    /\ store' = IndexUpsert(store, req[p].idea.id,
                            req[p].record.values, req[p].record.metadata)
    /\ req' = [req EXCEPT ![p] =
                 Done("cron", 200,
                      [success |-> TRUE,
                       idea |-> [id |-> req[p].idea.id, title |-> req[p].idea.title],
                       publishResult |-> req[p].publishResult])]
    /\ UNCHANGED <<nextId, now, embedderInstance, env>>

\* ------------------------------------------------------------ environment

\* an awaited external call (embedding model, index, Gemini, fetch) throws:
\* the handler's catch answers 500
FirstAwaitFails(p, op) ==
    /\ req[p] = Idle
    /\ req' = [req EXCEPT ![p] = Done(op, 500, ErrorBody("Internal server error"))]
    /\ UNCHANGED <<store, nextId, now, embedderInstance, env>>

AwaitFails(p) ==
    /\ req[p].pc \in {"upsert", "list", "select", "publish", "fetch", "mark"}
    /\ req' = [req EXCEPT ![p] = Done(req[p].op, 500, ErrorBody("Internal server error"))]
    /\ UNCHANGED <<store, nextId, now, embedderInstance, env>>

\* the response has gone out; the slot takes the next request
Respond(p) ==
    /\ req[p].pc = "done"
    /\ req' = [req EXCEPT ![p] = Idle]
    /\ UNCHANGED <<store, nextId, now, embedderInstance, env>>

\* ------------------------------------------------------------ specification

\* the process of the request-level runs: its embedder has been loaded by an
\* earlier call (getEmbedder then returns the handle and assigns nothing), and
\* PUBLISH_PASSWORD is set to the password the operator's requests carry
Loaded == <<"loaded">>

Password == "secret"

Configured == [PUBLISH_PASSWORD |-> <<Password>>]

\* from an empty pool: the operator's requests and the cron runs interleave
Init ==
    /\ store = <<>>
    /\ nextId = 0
    /\ now = 1
    /\ req = [p \in Procs |-> Idle]
    /\ embedderInstance = Loaded
    /\ env = Configured

ApiNext(p) ==
    \/ \E body \in CreateBodies : PostCreate(p, body)
    \/ PostUpsert(p)
    \/ GetStart(p)
    \/ GetList(p)
    \/ DeleteWithoutId(p)
    \/ \E id \in 1..MaxIdeas : Delete(p, id)
    \/ \E op \in {"POST", "GET", "DELETE"} : FirstAwaitFails(p, op)

CronNext(p) ==
    \/ CronStart(p)
    \/ CronSelect(p)
    \/ \E requested \in RequestedPlatforms, content \in {"", "# Post"},
          succeeded \in [Platforms -> BOOLEAN] :
            CronPublish(p, requested, content, succeeded)
    \/ CronMarkFetch(p)
    \/ CronMarkUpsert(p)
    \/ FirstAwaitFails(p, "cron")

Next ==
    \/ \E p \in ApiProcs : ApiNext(p)
    \/ \E p \in CronProcs : CronNext(p)
    \/ \E p \in Procs : AwaitFails(p)
    \/ \E p \in Procs : Respond(p)

Spec == Init /\ [][Next]_vars

\* ------------------------------------------------- runs from a stored pool

ValidTitles == {TitleA, TitleB, TitleC}

\* the ids of the ideas stored before the run
PoolIds(n) == {100 + i : i \in 1..n}

\* the record of an idea created at tick 1 and, when usedTick > 0, marked used
\* at usedTick
PoolRecord(id, title, usedTick) ==
    LET body == [title |-> title, description |-> DescriptionOk, tags |-> TagsOk]
        created == upsertIdea(<<>>, newIdea(id, body, 1),
                              generateIdeaEmbedding(title, DescriptionOk))[id]
    IN  IF usedTick = 0 THEN created ELSE markedRecord(id, created, usedTick)

\* the pools of at most n ideas whose used ideas were marked at the ticks
\* usedTicks
Pools(n, usedTicks) ==
    UNION {{[id \in PoolIds(k) |-> PoolRecord(id, c[id].title, c[id].usedTick)] :
              c \in [PoolIds(k) -> [title : ValidTitles, usedTick : {0} \cup usedTicks]]} :
           k \in 0..n}

\* the gate: create requests, one at a time, against any stored pool
InitGate ==
    /\ store \in Pools(GatePool, {1})
    /\ nextId = MaxIdeas - 1
    /\ now = 1
    /\ req = [p \in Procs |-> Idle]
    /\ embedderInstance = Loaded
    /\ env = Configured

NextGate ==
    \E p \in ApiProcs :
        \/ \E body \in CreateBodies : PostCreate(p, body)
        \/ PostUpsert(p)
        \/ FirstAwaitFails(p, "POST")
        \/ AwaitFails(p)
        \/ Respond(p)

SpecGate == InitGate /\ [][NextGate]_vars

\* the selection: cron runs, one at a time, against any stored pool
InitSelect ==
    /\ store \in Pools(SelectPool, 1..MaxClock)
    /\ nextId = MaxIdeas
    /\ now = MaxClock
    /\ req = [p \in Procs |-> Idle]
    /\ embedderInstance = Loaded
    /\ env = Configured

NextSelect ==
    \E p \in CronProcs :
        \/ CronNext(p)
        \/ AwaitFails(p)
        \/ Respond(p)

SpecSelect == InitSelect /\ [][NextSelect]_vars

\* two invocations of the cron endpoint that may overlap (the scheduler's and
\* a retry, or a manual trigger), against any stored pool
InitCrons ==
    /\ store \in Pools(CronPool, {1})
    /\ nextId = MaxIdeas
    /\ now = 1
    /\ req = [p \in Procs |-> Idle]
    /\ embedderInstance = Loaded
    /\ env = Configured

NextCrons ==
    \E p \in Procs :
        \/ CronNext(p)
        \/ AwaitFails(p)
        \/ Respond(p)

SpecCrons == InitCrons /\ [][NextCrons]_vars

\* create requests that may overlap, from an empty pool; their texts are
\* either identical (similarity 1.0) or far apart (0.60), so no score lies on
\* the threshold
OverlapBodies ==
    [title : {TitleA, TitleC}, description : {DescriptionOk}, tags : {TagsOk}]

NextCreates ==
    \E p \in Procs :
        \/ \E body \in OverlapBodies : PostCreate(p, body)
        \/ PostUpsert(p)
        \/ FirstAwaitFails(p, "POST")
        \/ AwaitFails(p)
        \/ Respond(p)

SpecCreates == Init /\ [][NextCreates]_vars

\* ------------------------------------------------- the password check

Methods == {"POST", "GET", "DELETE"}

\* req.headers["x-publish-password"]: absent, the operator's password, or
\* another string
Headers == {Undefined, <<Password>>, <<"guess">>}

\* process.env: PUBLISH_PASSWORD unset, or set to the operator's password
Environments == {[PUBLISH_PASSWORD |-> Undefined], Configured}

\* providedPassword === expectedPassword
validatePassword(providedPassword, expectedPassword) ==
    providedPassword = expectedPassword

\* the handler of /api/ideas, from the request to its first await on the index
\* or to its response: 401 when validatePassword fails, else the switch on
\* req.method
handler(p, method, providedPassword) ==
    IF ~validatePassword(providedPassword, env.PUBLISH_PASSWORD)
    THEN /\ req[p] = Idle
         /\ req' = [req EXCEPT ![p] = Done(method, 401, ErrorBody("Invalid password"))]
         /\ UNCHANGED <<store, nextId, now, embedderInstance, env>>
    ELSE \/ method = "POST" /\ \E body \in CreateBodies : PostCreate(p, body)
         \/ method = "GET" /\ GetStart(p)
         \/ method = "DELETE" /\ DeleteWithoutId(p)
         \/ method = "DELETE" /\ \E id \in DOMAIN store \cup 1..MaxIdeas : Delete(p, id)
         \/ FirstAwaitFails(p, method)

\* requests with any header, against a server with any configuration and a
\* pool of at most one idea
InitAuth ==
    /\ store \in Pools(1, {1})
    /\ nextId = MaxIdeas - 1
    /\ now = 1
    /\ req = [p \in Procs |-> Idle]
    /\ embedderInstance = Loaded
    /\ env \in Environments

NextAuth ==
    \E p \in ApiProcs :
        \/ \E method \in Methods, providedPassword \in Headers :
              handler(p, method, providedPassword)
        \/ PostUpsert(p)
        \/ GetList(p)
        \/ AwaitFails(p)
        \/ Respond(p)

SpecAuth == InitAuth /\ [][NextAuth]_vars

\* ------------------------------------------------- the embedder's handle

\* let embedderInstance: FeatureExtractionPipeline | null = null
Null == <<>>

EmbeddedTexts == {TextA, TextB, TextC}

\* generateEmbedding(text), up to its first await: getEmbedder() finds
\* embedderInstance null and awaits pipeline(...), or returns the handle and
\* the call awaits pipe(text, ...)
EmbedStart(p, text) ==
    /\ req[p] = Idle
    /\ req' = [req EXCEPT ![p] =
                 IF embedderInstance = Null
                 THEN [op |-> "generateEmbedding", pc |-> "pipeline", text |-> text]
                 ELSE [op |-> "generateEmbedding", pc |-> "pipe", text |-> text,
                       pipe |-> embedderInstance[1]]]
    /\ UNCHANGED <<store, nextId, now, embedderInstance, env>>

\* pipeline(...) resolves with a new pipeline, named here after the call that
\* constructed it: embedderInstance = await pipeline(...); return
\* embedderInstance
EmbedderLoaded(p) ==
    /\ req[p].op = "generateEmbedding"
    /\ req[p].pc = "pipeline"
    /\ embedderInstance' = <<p>>
    /\ req' = [req EXCEPT ![p] =
                 [op |-> "generateEmbedding", pc |-> "pipe", text |-> req[p].text,
                  pipe |-> p]]
    /\ UNCHANGED <<store, nextId, now, env>>

\* const result = await pipe(text, ...); return Array.from(result.data)
EmbedDone(p) ==
    /\ req[p].op = "generateEmbedding"
    /\ req[p].pc = "pipe"
    /\ req' = [req EXCEPT ![p] =
                 [op |-> "generateEmbedding", pc |-> "done", text |-> req[p].text,
                  pipe |-> req[p].pipe, embedding |-> Embedder(req[p].text)]]
    /\ UNCHANGED <<store, nextId, now, embedderInstance, env>>

\* pipeline(...) or pipe(...) rejects: the call throws and assigns nothing
EmbedFails(p) ==
    /\ req[p].op = "generateEmbedding"
    /\ req[p].pc \in {"pipeline", "pipe"}
    /\ req' = [req EXCEPT ![p] =
                 [op |-> "generateEmbedding", pc |-> "done", text |-> req[p].text,
                  threw |-> TRUE]]
    /\ UNCHANGED <<store, nextId, now, embedderInstance, env>>

\* a fresh process: calls of generateEmbedding that may overlap, as the
\* Promise.all of selectUniqueIdea issues them
InitEmbedder ==
    /\ store = <<>>
    /\ nextId = 0
    /\ now = 1
    /\ req = [p \in Procs |-> Idle]
    /\ embedderInstance = Null
    /\ env = Configured

NextEmbedder ==
    \E p \in Procs :
        \/ \E text \in EmbeddedTexts : EmbedStart(p, text)
        \/ EmbedderLoaded(p)
        \/ EmbedDone(p)
        \/ EmbedFails(p)
        \/ Respond(p)

SpecEmbedder == InitEmbedder /\ [][NextEmbedder]_vars

\* ------------------------------------------------- calls of the functions

\* the ideas the program builds: a created idea, and a created idea marked used
CreatedIdeas ==
    {newIdea(id, [title |-> title, description |-> DescriptionOk, tags |-> tags], t) :
        id \in 1..MaxIdeas, title \in ValidTitles,
        tags \in {TagsOk, TagsSwapped, TagsOne}, t \in 1..MaxClock}

Ideas == CreatedIdeas \cup {updatedIdea(idea, t) : idea \in CreatedIdeas, t \in 1..MaxClock}

IsSquare(n) == Sqrt(n) * Sqrt(n) = n

\* vectors of every length up to MaxDim, the zero vectors among them, whose
\* magnitude is a whole number
Vectors ==
    {v \in UNION {[1..n -> {-4, -3, 0, 3, 4}] : n \in 0..MaxDim} :
        IsSquare(SumProducts(v, v, Len(v)))}

\* metadataToIdea(idea.id, ideaToMetadata(idea)), as upsertIdea and a later
\* read compose them
RoundTrip(p, idea) ==
    /\ req[p] = Idle
    /\ req' = [req EXCEPT ![p] =
                 [op |-> "roundTrip", pc |-> "done",
                  idea |-> idea,
                  metadata |-> ideaToMetadata(idea),
                  decoded |-> metadataToIdea(idea.id, ideaToMetadata(idea))]]
    /\ UNCHANGED <<store, nextId, now, embedderInstance, env>>

\* cosineSimilarity(vecA, vecB)
Cosine(p, vecA, vecB) ==
    /\ req[p] = Idle
    /\ req' = [req EXCEPT ![p] =
                 [op |-> "cosineSimilarity", pc |-> "done",
                  vecA |-> vecA, vecB |-> vecB,
                  result |-> cosineSimilarity(vecA, vecB)]]
    /\ UNCHANGED <<store, nextId, now, embedderInstance, env>>

\* the listings getAllIdeas returns for a pool of at most MaxListing ideas,
\* each unused (tick 0) or marked used at a tick of the clock
Listings ==
    UNION {{[i \in 1..k |->
                metadataToIdea(100 + i, PoolRecord(100 + i, TitleA, ticks[i]).metadata)] :
              ticks \in [1..k -> 0..MaxClock]} :
           k \in 0..MaxListing}

\* the recent set selectUniqueIdea takes from a listing, and the number of
\* embeddings it then computes
Recent(p, allIdeas) ==
    /\ req[p] = Idle
    /\ req' = [req EXCEPT ![p] =
                 [op |-> "recent", pc |-> "done",
                  allIdeas |-> allIdeas,
                  recent |-> recentOf(allIdeas),
                  embedded |-> embeddingCalls(allIdeas)]]
    /\ UNCHANGED <<store, nextId, now, embedderInstance, env>>

NextRecent ==
    \E p \in CronProcs :
        \/ \E allIdeas \in Listings : Recent(p, allIdeas)
        \/ Respond(p)

SpecRecent == Init /\ [][NextRecent]_vars

NextPure ==
    \E p \in ApiProcs :
        \/ \E idea \in Ideas : RoundTrip(p, idea)
        \/ \E vecA \in Vectors, vecB \in Vectors : Cosine(p, vecA, vecB)
        \/ Respond(p)

SpecPure == Init /\ [][NextPure]_vars

\* ------------------------------------------------------------------ claims

IsUsedInStore(id) == store[id].metadata.used = "true"

\* the create request in slot p was rejected by the gate
GateRejected(p) ==
    /\ req[p].op = "POST"
    /\ req[p].pc = "done"
    /\ req[p].status = 400
    /\ "similarIdeas" \in DOMAIN req[p].body.error

\* the stored ideas with the text of a request
SameText(request) ==
    {id \in DOMAIN store :
        /\ store[id].metadata.title = request.title
        /\ store[id].metadata.description = request.description}

\* C1: in the cron flow markIdeaAsUsed is reached only after the publication
\* succeeded: a run that is at or past the call of markIdeaAsUsed holds a
\* publish result in which at least one platform succeeded.
C1_MarkOnlyAfterPublished ==
    \A p \in CronProcs :
        (req[p].op = "cron" /\ req[p].pc \in {"fetch", "mark"}) =>
            \E i \in 1..Len(req[p].publishResult) : req[p].publishResult[i].success

\* C2: the gate decides as isIdeaUnique(maxScore, 0.85) does: a create goes on
\* to its upsert only when every score the top-5 query returned is unique
\* under isIdeaUnique, and is rejected only when the best one is not.
C2_GateDecidesAsIsIdeaUnique ==
    \A p \in ApiProcs :
        /\ (req[p].op = "POST" /\ req[p].pc = "upsert") =>
              \A matches \in IndexQuery(store, req[p].embedding, TopK) :
                  \A i \in 1..Len(matches) :
                      isIdeaUnique(matches[i].score, DefaultThreshold)
        /\ GateRejected(p) =>
              ~isIdeaUnique(req[p].body.error.similarIdeas[1].similarity,
                            DefaultThreshold)

\* C3: the step in which selectUniqueIdea returns gives an idea that has
\* used = false in the listing it read, and whose stored used flag is "false"
\* when the listing is read; so an idea already used is never returned.
C3_SelectedIsUnused ==
    [][\A p \in CronProcs :
          (req[p].pc = "select" /\ req'[p].pc = "publish") =>
              /\ ~req'[p].idea.used
              /\ req'[p].idea.id \in DOMAIN store
              /\ ~IsUsedInStore(req'[p].idea.id)]_vars

C3_Witness ==
    \E p \in CronProcs :
        /\ req[p].pc = "publish"
        /\ \E id \in DOMAIN store : IsUsedInStore(id) /\ id # req[p].idea.id

\* the used ideas with a usedAt, and the unused ones
UsedIds ==
    {id \in DOMAIN store : IsUsedInStore(id) /\ store[id].metadata.usedAt # ""}
UnusedIds == {id \in DOMAIN store : ~IsUsedInStore(id)}

\* similarity(embedding(c), embedding(r)) of two stored ideas
SimTo(c, r) ==
    cosineSimilarity(
        generateIdeaEmbedding(store[c].metadata.title, store[c].metadata.description),
        generateIdeaEmbedding(store[r].metadata.title, store[r].metadata.description)).value

\* maxSim(c): the largest similarity of c to a used idea
MaxSimOf(c) ==
    CHOOSE m \in {SimTo(c, r) : r \in UsedIds} : \A r \in UsedIds : m >= SimTo(c, r)

C5_UsedIsMonotonic ==
    [][/\ \A id \in DOMAIN store \cap DOMAIN store' :
             IsUsedInStore(id) => store'[id].metadata.used = "true"
       /\ \A p \in ApiProcs :
             (req[p].pc = "upsert" /\ req'[p].pc = "done" /\ req'[p].status = 201) =>
                 store'[req[p].idea.id].metadata.used = "false"]_vars

\* a create has completed while a used idea is stored
C5_Witness ==
    /\ \E id \in DOMAIN store : IsUsedInStore(id)
    /\ \E p \in ApiProcs :
          req[p].op = "POST" /\ req[p].pc = "done" /\ req[p].status = 201

\* C6: every stored idea has a usedAt exactly when its used flag is true, in
\* the stored metadata and in the idea decoded from it.
C6_UsedAtIffUsed ==
    \A id \in DOMAIN store :
        /\ (store[id].metadata.usedAt # "") <=> (store[id].metadata.used = "true")
        /\ (metadataToIdea(id, store[id].metadata).usedAt # Undefined)
              <=> metadataToIdea(id, store[id].metadata).used

C6_Witness ==
    /\ \E id \in DOMAIN store : IsUsedInStore(id)
    /\ \E id \in DOMAIN store : ~IsUsedInStore(id)

MetadataFields == {"title", "description", "tags", "createdAt", "used", "usedAt"}

\* the step writes the record of id, whole, and touches no other record
WritesOnly(id) ==
    /\ DOMAIN store' = DOMAIN store \cup {id}
    /\ \A other \in DOMAIN store \ {id} : store'[other] = store[other]
    /\ DOMAIN store'[id] = {"values", "metadata"}
    /\ DOMAIN store'[id].metadata = MetadataFields

\* C7: no operation leaves the pool partly written. A step of a create request
\* other than its completed upsert leaves the pool unchanged, and that upsert
\* writes one whole record; a step of the cron flow other than the completed
\* upsert of markIdeaAsUsed leaves the pool unchanged, and that upsert writes
\* one whole record with used = "true", a usedAt and the fetched text.
C7_NoPartialWrite ==
    [][/\ \A p \in ApiProcs :
             (req'[p] # req[p] /\ req'[p].op = "POST") =>
                 IF req'[p].pc = "done" /\ req'[p].status = 201
                 THEN WritesOnly(req[p].idea.id)
                 ELSE store' = store
       /\ \A p \in CronProcs :
             (req'[p] # req[p] /\ req'[p].op = "cron") =>
                 IF req'[p].pc = "done" /\ req'[p].status = 200
                 THEN /\ WritesOnly(req[p].idea.id)
                      /\ store'[req[p].idea.id].metadata.used = "true"
                      /\ store'[req[p].idea.id].metadata.usedAt # ""
                      /\ store'[req[p].idea.id].metadata.title = req[p].idea.title
                      /\ store'[req[p].idea.id].metadata.description
                            = req[p].idea.description
                 ELSE store' = store]_vars

\* a create was rejected by the gate and a markIdeaAsUsed has completed
C7_Witness ==
    /\ \E p \in ApiProcs : GateRejected(p)
    /\ \E p \in CronProcs : req[p].pc = "done" /\ req[p].status = 200

\* C8: a create of a text that is already stored is rejected: the step in
\* which the gate decides on a valid request whose title and description some
\* stored idea has ends in the 400 rejection, with the score 1.0 first among
\* the conflicts, and leaves the pool as it was; no create with a stored text
\* goes on to its upsert.
C8_DuplicateRejected ==
    [][\A p \in ApiProcs :
          (/\ req[p] = Idle
           /\ req'[p].op = "POST"
           /\ "request" \in DOMAIN req'[p]
           /\ IsValidCreate(req'[p].request)
           /\ SameText(req'[p].request) # {}) =>
              /\ GateRejected(p)'
              /\ req'[p].body.error.similarIdeas[1].similarity = 100
              /\ store' = store]_vars

\* the second create of a stored text was rejected with the score 1.0, and the
\* pool holds that text once
C8_Witness ==
    \E p \in ApiProcs :
        /\ GateRejected(p)
        /\ req[p].body.error.similarIdeas[1].similarity = 100
        /\ req[p].body.error.similarIdeas[1].title = req[p].request.title
        /\ Cardinality(SameText(req[p].request)) = 1

\* C9: a valid create against a pool in which every idea scores below 0.85
\* (or an empty pool) is accepted: the gate sends it on to the upsert of a new
\* idea with the request's title, description and tags, used = false and no
\* usedAt, and that upsert adds exactly one record, under a new id, that
\* decodes to that idea; the response is 201 with it.
C9_BelowThresholdAccepted ==
    [][\A p \in ApiProcs :
          /\ (/\ req[p] = Idle
              /\ req'[p].op = "POST"
              /\ "request" \in DOMAIN req'[p]
              /\ IsValidCreate(req'[p].request)
              /\ \A id \in DOMAIN store :
                    IndexScore(store, id,
                               generateIdeaEmbedding(req'[p].request.title,
                                                     req'[p].request.description))
                        < GateThreshold) =>
                /\ req'[p].pc = "upsert"
                /\ req'[p].idea.title = req'[p].request.title
                /\ req'[p].idea.description = req'[p].request.description
                /\ req'[p].idea.tags = req'[p].request.tags
                /\ ~req'[p].idea.used
                /\ req'[p].idea.usedAt = Undefined
                /\ store' = store
          /\ (req[p].op = "POST" /\ req[p].pc = "upsert" /\ req'[p].pc = "done"
                /\ req'[p].status = 201) =>
                LET id == req[p].idea.id
                    stored == metadataToIdea(id, store'[id].metadata)
                IN  /\ id \notin DOMAIN store
                    /\ DOMAIN store' = DOMAIN store \cup {id}
                    /\ \A other \in DOMAIN store : store'[other] = store[other]
                    /\ stored.title = req[p].request.title
                    /\ stored.description = req[p].request.description
                    /\ stored.tags = req[p].request.tags
                    /\ ~stored.used
                    /\ stored.usedAt = Undefined
                    /\ store'[id].metadata.used = "false"
                    /\ store'[id].metadata.usedAt = ""
                    /\ store'[id].values
                          = generateIdeaEmbedding(req[p].request.title,
                                                  req[p].request.description)
                    /\ req'[p].body.idea = stored]_vars

\* a create was accepted beside stored ideas, all of which score below 0.85
C9_Witness ==
    \E p \in ApiProcs :
        /\ req[p].op = "POST" /\ req[p].pc = "done" /\ req[p].status = 201
        /\ req[p].body.idea.id \in DOMAIN store
        /\ Cardinality(DOMAIN store) >= 2
        /\ \A id \in DOMAIN store \ {req[p].body.idea.id} :
              IndexScore(store, id, store[req[p].body.idea.id].values) < GateThreshold

\* C10: a rejection carries at most 3 conflicts, each the title and the score
\* of a match, and they are the first entries of the nearest-neighbour answer
\* in its order: a match ranked in the top 3 is always among them.
C10_ConflictsAreTopThree ==
    \A p \in ApiProcs :
        GateRejected(p) =>
            LET conflicts == req[p].body.error.similarIdeas
                embedding == generateIdeaEmbedding(req[p].request.title,
                                                   req[p].request.description)
            IN  /\ Len(conflicts) <= 3
                /\ \E matches \in IndexQuery(store, embedding, TopK) :
                      /\ Len(conflicts) = Min(3, Len(matches))
                      /\ \A i \in 1..Len(conflicts) :
                            conflicts[i] = [title |-> matches[i].metadata.title,
                                            similarity |-> matches[i].score]

\* a rejection against a pool of 4 or more: the answer was cut to 3
C10_Witness ==
    \E p \in ApiProcs :
        /\ GateRejected(p)
        /\ Cardinality(DOMAIN store) >= 4
        /\ Len(req[p].body.error.similarIdeas) = 3

\* the cron run in slot p ended with selectUniqueIdea's error
NoUnusedIdeas(p) ==
    req[p] = Done("cron", 500, ErrorBody("No unused ideas available"))

\* C11: when no stored idea is unused, the step of the cron flow in which
\* getAllIdeas returns (at its count for an empty pool, at its query
\* otherwise) ends the run with the 500 response "No unused ideas available"
\* and leaves the pool as it was: the run never comes to generate, publish or
\* mark.
C11_NoUnusedIdeasFails ==
    [][\A p \in CronProcs :
          (\/ CronStart(p) /\ DOMAIN store = {}
           \/ CronSelect(p) /\ UnusedIds = {}) =>
              /\ NoUnusedIdeas(p)'
              /\ store' = store]_vars

\* a run failed so over a pool whose ideas are all used
C11_Witness ==
    \E p \in CronProcs :
        /\ NoUnusedIdeas(p)
        /\ DOMAIN store # {}
        /\ UnusedIds = {}

\* the positions of a listing that hold an unused idea, those that hold a
\* used idea with a usedAt, and the maxSim of a position against the latter
ListedUnused(l) == {i \in 1..Len(l) : ~l[i].used}
ListedUsed(l) == {i \in 1..Len(l) : l[i].used /\ l[i].usedAt # Undefined}

ListedSim(l, i, j) ==
    cosineSimilarity(generateIdeaEmbedding(l[i].title, l[i].description),
                     generateIdeaEmbedding(l[j].title, l[j].description)).value

ListedMaxSim(l, i) ==
    CHOOSE m \in {ListedSim(l, i, j) : j \in ListedUsed(l)} :
        \A j \in ListedUsed(l) : m >= ListedSim(l, i, j)

\* C12: warm selection returns, among the unused ideas of the listing with
\* the minimal maxSim, the one listed first. (The pools hold at most 5 used
\* ideas, so the recent set is all of them.)
C12_TieKeepsEarliest ==
    \A p \in CronProcs :
        (req[p].pc = "publish" /\ ListedUsed(req[p].allIdeas) # {}) =>
            LET l == req[p].allIdeas
            IN  \E k \in ListedUnused(l) :
                    /\ l[k] = req[p].idea
                    /\ \A i \in ListedUnused(l) :
                          \/ ListedMaxSim(l, k) < ListedMaxSim(l, i)
                          \/ ListedMaxSim(l, k) = ListedMaxSim(l, i) /\ k <= i

\* two unused ideas tie at a minimal maxSim below 1 and the earlier was taken
C12_Witness ==
    \E p \in CronProcs :
        /\ req[p].pc = "publish"
        /\ ListedUsed(req[p].allIdeas) # {}
        /\ LET l == req[p].allIdeas
           IN  \E i, j \in ListedUnused(l) :
                   /\ i < j
                   /\ l[i] = req[p].idea
                   /\ ListedMaxSim(l, i) = ListedMaxSim(l, j)
                   /\ ListedMaxSim(l, i) < 100

\* C13: cold start (the listing holds no used idea): the idea returned is an
\* unused idea of the listing, every unused idea of the listing is one
\* selectUniqueIdea may return, and no embedding was asked for.
C13_ColdStartAnyUnused ==
    \A p \in CronProcs :
        (req[p].pc = "publish" /\ ListedUsed(req[p].allIdeas) = {}) =>
            LET l == req[p].allIdeas
            IN  /\ \E i \in ListedUnused(l) : l[i] = req[p].idea
                /\ selectUniqueIdea(l) = {l[i] : i \in ListedUnused(l)}
                /\ req[p].embedded = 0

\* a cold start over three ideas returned the last listed
C13_Witness ==
    \E p \in CronProcs :
        /\ req[p].pc = "publish"
        /\ ListedUsed(req[p].allIdeas) = {}
        /\ Len(req[p].allIdeas) = 3
        /\ req[p].idea = req[p].allIdeas[3]

\* the cron run in slot p ended with markIdeaAsUsed's error
IdeaNotFound(p) == req[p] = Done("cron", 500, ErrorBody("Idea not found"))

\* C14: markIdeaAsUsed on an id that is not stored fails: the step a run takes
\* from the fetch of an absent id ends it with a 500 response and leaves the
\* pool as it was, the run never goes on to the upsert, and when it is the
\* fetch that answered the message is "Idea not found".
C14_UnknownIdFails ==
    [][\A p \in CronProcs :
          (/\ req[p].op = "cron"
           /\ req[p].pc = "fetch"
           /\ req[p].idea.id \notin DOMAIN store
           /\ req'[p] # req[p]) =>
              /\ req'[p].pc = "done"
              /\ req'[p].status = 500
              /\ store' = store
              /\ CronMarkFetch(p) => IdeaNotFound(p)']_vars

\* markIdeaAsUsed failed so, beside another stored idea
C14_Witness ==
    \E p \in CronProcs : IdeaNotFound(p) /\ DOMAIN store # {}

\* C15: markIdeaAsUsed on a stored idea prepares a record with the vector it
\* fetched and the fetched title, description, tags and createdAt, with used
\* true and a usedAt; its upsert writes exactly that record under the same id
\* and leaves every other record as it was.
C15_MarkChangesOnlyUsed ==
    [][\A p \in CronProcs :
          /\ (req[p].pc = "fetch" /\ req'[p].pc = "mark") =>
                LET id == req[p].idea.id
                    before == metadataToIdea(id, store[id].metadata)
                    after == metadataToIdea(id, req'[p].record.metadata)
                IN  /\ req'[p].record.values = store[id].values
                    /\ req'[p].record.metadata.title = store[id].metadata.title
                    /\ req'[p].record.metadata.description
                          = store[id].metadata.description
                    /\ req'[p].record.metadata.tags = store[id].metadata.tags
                    /\ req'[p].record.metadata.createdAt = store[id].metadata.createdAt
                    /\ after.id = before.id
                    /\ after.tags = before.tags
                    /\ after.used
                    /\ after.usedAt # Undefined
          /\ (req[p].pc = "mark" /\ req'[p].pc = "done" /\ req'[p].status = 200) =>
                /\ DOMAIN store' = DOMAIN store \cup {req[p].idea.id}
                /\ store'[req[p].idea.id] = req[p].record
                /\ \A other \in DOMAIN store \ {req[p].idea.id} :
                      store'[other] = store[other]]_vars

\* markIdeaAsUsed has completed on one of two stored ideas
C15_Witness ==
    \E p \in CronProcs :
        /\ req[p].op = "cron" /\ req[p].pc = "done" /\ req[p].status = 200
        /\ req[p].body.idea.id \in DOMAIN store
        /\ IsUsedInStore(req[p].body.idea.id)
        /\ Cardinality(DOMAIN store) >= 2

\* a listing shows the idea id as used, with a usedAt
ListsAsUsed(ideas, id) ==
    \E i \in 1..Len(ideas) :
        ideas[i].id = id /\ ideas[i].used /\ ideas[i].usedAt # Undefined

\* C16: a getAllIdeas returns every idea that is stored as used when its
\* query is answered, with used = true and a usedAt. (getAllIdeas runs in the
\* cron flow and in GET; an idea used at the query of a cron run's listing was
\* marked before that listing started, no other run being there to mark it,
\* and an idea still stored was not deleted.)
C16_MarkedThenListed ==
    [][/\ \A p \in CronProcs :
             (req[p].pc = "select" /\ req'[p].pc = "publish") =>
                 \A id \in DOMAIN store :
                     IsUsedInStore(id) => ListsAsUsed(req'[p].allIdeas, id)
       /\ \A p \in ApiProcs :
             (/\ req[p].op = "GET"
              /\ req[p].pc = "list"
              /\ req'[p].pc = "done"
              /\ req'[p].status = 200) =>
                 \A id \in DOMAIN store :
                     IsUsedInStore(id) => ListsAsUsed(req'[p].body.ideas, id)]_vars

\* C17: the metadata encoding round-trips: decoding what ideaToMetadata made
\* of an idea gives the idea back, field by field, the tags in their order,
\* the used flag the same, and usedAt absent exactly when it was absent.
C17_MetadataRoundTrip ==
    \A p \in ApiProcs :
        req[p].op = "roundTrip" =>
            /\ req[p].decoded = req[p].idea
            /\ req[p].decoded.id = req[p].idea.id
            /\ req[p].decoded.title = req[p].idea.title
            /\ req[p].decoded.description = req[p].idea.description
            /\ req[p].decoded.tags = req[p].idea.tags
            /\ req[p].decoded.createdAt = req[p].idea.createdAt
            /\ req[p].decoded.used = req[p].idea.used
            /\ (req[p].decoded.usedAt = Undefined) <=> (req[p].idea.usedAt = Undefined)

\* an unused idea without usedAt, its tags not in alphabetical order, made
\* the round trip
C17_Witness ==
    \E p \in ApiProcs :
        /\ req[p].op = "roundTrip"
        /\ ~req[p].idea.used
        /\ req[p].idea.usedAt = Undefined
        /\ req[p].idea.tags = TagsSwapped
        /\ req[p].metadata.used = "false"
        /\ req[p].metadata.usedAt = ""

\* C18: cosineSimilarity throws, and gives no score, exactly when its two
\* vectors differ in length, the empty vector included.
C18_LengthMismatchThrows ==
    \A p \in ApiProcs :
        req[p].op = "cosineSimilarity" =>
            (Len(req[p].vecA) # Len(req[p].vecB)) <=> req[p].result.threw

\* the empty vector against a vector of length 2 threw
C18_Witness ==
    \E p \in ApiProcs :
        /\ req[p].op = "cosineSimilarity"
        /\ req[p].vecA = <<>>
        /\ Len(req[p].vecB) = 2
        /\ req[p].result.threw

IsZeroVector(v) == \A i \in 1..Len(v) : v[i] = 0

\* C19: on vectors of one length of which one is the zero vector (the empty
\* vector included), cosineSimilarity returns 0 and does not throw.
C19_ZeroVectorGivesZero ==
    \A p \in ApiProcs :
        (/\ req[p].op = "cosineSimilarity"
         /\ Len(req[p].vecA) = Len(req[p].vecB)
         /\ IsZeroVector(req[p].vecA) \/ IsZeroVector(req[p].vecB)) =>
            /\ ~req[p].result.threw
            /\ req[p].result.value = 0

\* the zero vector against a vector that is not zero gave 0
C19_Witness ==
    \E p \in ApiProcs :
        /\ req[p].op = "cosineSimilarity"
        /\ Len(req[p].vecA) = 2
        /\ IsZeroVector(req[p].vecA)
        /\ Len(req[p].vecB) = 2
        /\ ~IsZeroVector(req[p].vecB)
        /\ ~req[p].result.threw
        /\ req[p].result.value = 0

\* some platform took the article
Succeeded(publishResult) ==
    \E i \in 1..Len(publishResult) : publishResult[i].success

\* the idea the cron run in slot p has published, if it has published one
Published(p) ==
    IF req[p].op # "cron" THEN {}
    ELSE IF req[p].pc \in {"fetch", "mark"} /\ Succeeded(req[p].publishResult)
    THEN {req[p].idea.id}
    ELSE IF req[p].pc = "done" /\ req[p].status = 200
            /\ Succeeded(req[p].body.publishResult)
    THEN {req[p].body.idea.id}
    ELSE {}

\* C20: no idea is published more than once: two cron runs never have both
\* published the same idea.
C20_NoDoublePublish ==
    \A p, q \in Procs : (p # q) => Published(p) \cap Published(q) = {}


\* C21: under any interleaving of create requests, an idea is written to the
\* store only while its similarity to every idea the store then holds is below
\* the threshold 0.85; so two overlapping creates of the same text are never
\* both stored.
C21_PairwiseBelowThreshold ==
    [][\A p \in Procs :
         PostUpsert(p) =>
             \A id \in DOMAIN store :
                 cosineSimilarity(req[p].embedding, store[id].values).value
                     < GateThreshold]_vars

\* C22: once deleteIdea(id) has completed, the idea with that id is never in
\* the pool again, whatever a concurrent markIdeaAsUsed(id) does. nanoid()
\* hands out every id once, so the only step that may put an id into the pool
\* is the upsert of the create that made it: no other step adds an id the
\* pool does not hold.
C22_DeletedStaysDeleted ==
    [][\A id \in DOMAIN store' \ DOMAIN store :
         \E p \in ApiProcs : PostUpsert(p) /\ req[p].idea.id = id]_vars

\* the call in slot p has been given a model handle
HoldsHandle(p) == req[p].op = "generateEmbedding" /\ "pipe" \in DOMAIN req[p]

\* C23: the model handle is initialized at most once per process, also when
\* calls of generateEmbedding overlap before the first initialization has
\* finished: embedderInstance, once set, is never assigned again, and all
\* calls in flight use the same handle.
C23_EmbedderInitializedOnce ==
    [][/\ embedderInstance # Null => embedderInstance' = embedderInstance
       /\ \A p \in Procs, q \in Procs :
            (HoldsHandle(p)' /\ HoldsHandle(q)') => req'[p].pipe = req'[q].pipe]_vars

\* the positions of the used ideas in a listing
UsedAmong(allIdeas) == {i \in 1..Len(allIdeas) : allIdeas[i].used}

TimeOf(idea) == GetTime(idea.usedAt[1])

\* C24: the recent set of selectUniqueIdea is exactly the (at most 5) used
\* ideas of the listing with the latest usedAt values, in descending usedAt
\* order: every used idea carries a usedAt and is eligible, the set holds
\* min(5, number of used ideas) distinct used ideas, each at least as late as
\* the next, and no used idea left out is later than one taken. The cold-start
\* branch (unused ideas, and no embedding computed) is taken only when the
\* listing holds no used idea.
C24_RecentIsLatestFive ==
    \A p \in CronProcs :
        req[p].op = "recent" =>
            LET allIdeas == req[p].allIdeas
                recent == req[p].recent
                taken == {recent[j] : j \in 1..Len(recent)}
            IN  /\ \A i \in UsedAmong(allIdeas) : allIdeas[i].usedAt # Undefined
                /\ Len(recent) = Min(RecentLimit, Cardinality(UsedAmong(allIdeas)))
                /\ Cardinality({idea.id : idea \in taken}) = Len(recent)
                /\ taken \subseteq {allIdeas[i] : i \in UsedAmong(allIdeas)}
                /\ \A j \in 1..(Len(recent) - 1) :
                       TimeOf(recent[j]) >= TimeOf(recent[j + 1])
                /\ \A i \in UsedAmong(allIdeas) :
                       allIdeas[i] \notin taken =>
                           \A idea \in taken : TimeOf(allIdeas[i]) <= TimeOf(idea)
                /\ (UsedAmong(allIdeas) # 1..Len(allIdeas) /\ req[p].embedded = 0)
                       <=> (UsedAmong(allIdeas) = {} /\ allIdeas # <<>>)

\* a listing of more than 5 used ideas whose first idea is the oldest: the
\* recent set holds 5 ideas, starts with a later one and leaves the first out
C24_Witness ==
    \E p \in CronProcs :
        /\ req[p].op = "recent"
        /\ Cardinality(UsedAmong(req[p].allIdeas)) > RecentLimit
        /\ Len(req[p].recent) = RecentLimit
        /\ \A j \in 1..Len(req[p].recent) :
               /\ req[p].recent[j] # req[p].allIdeas[1]
               /\ TimeOf(req[p].recent[j]) > TimeOf(req[p].allIdeas[1])

\* the request carries no x-publish-password header, or one that is not the
\* configured password
Unauthenticated(providedPassword) ==
    \/ providedPassword = Undefined
    \/ providedPassword # env.PUBLISH_PASSWORD

\* C25: a request to the ideas endpoint (POST, GET or DELETE) that carries no
\* x-publish-password header or a wrong one is answered 401 in its first
\* step, whatever PUBLISH_PASSWORD is (also unset), and that step leaves the
\* pool and the id counter as they are: no embedding, read, upsert or delete.
C25_UnauthenticatedGets401 ==
    [][\A p \in ApiProcs, method \in Methods, providedPassword \in Headers :
         (Unauthenticated(providedPassword) /\ handler(p, method, providedPassword)) =>
             /\ req'[p] = Done(method, 401, ErrorBody("Invalid password"))
             /\ UNCHANGED <<store, nextId>>]_vars
====
